---- MODULE Spec2Model ----
(***************************************************************************)
(* Model of the Data.gov MCP server (src/src/index.ts): the four CKAN      *)
(* query tools, the datagov://resource/ read handler, the argument         *)
(* validators and the error summariser handleAxiosError.                   *)
(*                                                                         *)
(* Text is a sequence of text units.  A unit is one character wherever the *)
(* program looks inside the text (URIs, JSON syntax, digits); a literal of *)
(* the program or an opaque payload word is kept as one unit.              *)
(***************************************************************************)
EXTENDS Integers, Sequences, FiniteSets

\* slots: the invocations in progress; running: the process has not exited;
\* closing: the SIGINT listener has called server.close() and awaits it
VARIABLES slots, running, closing

vars == <<slots, running, closing>>

(***************************************************************************)
(* Bounds of the model.                                                    *)
(***************************************************************************)
NSlots == 2        \* invocations that may overlap
MaxFields == 3     \* fields in a generated argument bag
MaxRest == 3       \* characters after datagov://resource/ in a generated URI
MaxItems == 2      \* elements of a generated JSON array

----------------------------------------------------------------------------
\* the text made of the one unit w
T(w) == <<w>>

(***************************************************************************)
(* JavaScript values.  Every kind has its own field names next to t.       *)
(***************************************************************************)
Undef == [t |-> "undefined"]
Null == [t |-> "null"]
Bool(b) == [t |-> "boolean", b |-> b]
\* nk: "fin" (the integer n), "inf", "ninf" (+-Infinity), "negz" (-0)
NumK(k, n) == [t |-> "number", nk |-> k, n |-> n]
Num(n) == NumK("fin", n)
Str(s) == [t |-> "string", s |-> s]
Arr(a) == [t |-> "array", a |-> a]
\* an object: its own property names (texts), in property order, and their values
Obj(keys, vals) == [t |-> "object", ok |-> keys, ov |-> vals]
\* a built-in function
Func == [t |-> "function"]

\* typeof v
TypeOf(v) ==
  CASE v.t = "undefined" -> "undefined"
    [] v.t = "boolean" -> "boolean"
    [] v.t = "number" -> "number"
    [] v.t = "string" -> "string"
    [] v.t = "function" -> "function"
    [] OTHER -> "object"

\* what v has under key from its prototype chain.  Of the property names
\* the program reads (q, sort, rows, start, id, order_by, limit, offset,
\* all_fields, query, error, message) only sort is inherited, and only by
\* arrays: Array.prototype.sort
Inherited(v, key) == IF v.t = "array" /\ key = T("sort") THEN Func ELSE Undef

\* v.key, for v an object, an array or a primitive (not null or undefined)
Get(v, key) ==
  IF v.t = "object" /\ \E i \in 1..Len(v.ok) : v.ok[i] = key
  THEN v.ov[CHOOSE i \in 1..Len(v.ok) : v.ok[i] = key]
  ELSE Inherited(v, key)

\* v?.key
OptGet(v, key) == IF v.t \in {"undefined", "null"} THEN Undef ELSE Get(v, key)

\* ToBoolean(v)
Truthy(v) ==
  CASE v.t \in {"undefined", "null"} -> FALSE
    [] v.t = "boolean" -> v.b
    [] v.t = "number" -> ~(v.nk \in {"negz"} \/ (v.nk = "fin" /\ v.n = 0))
    [] v.t = "string" -> v.s # <<>>
    [] OTHER -> TRUE

----------------------------------------------------------------------------
(***************************************************************************)
(* The argument validators.                                                *)
(***************************************************************************)
IsObject(args) == TypeOf(args) = "object" /\ args # Null

OptionalOf(args, key, type) ==
  Get(args, T(key)) = Undef \/ TypeOf(Get(args, T(key))) = type

\* the validator with the check of rows forgotten
isValidPackageSearchArgs_NoRows(args) ==
  /\ IsObject(args)
  /\ OptionalOf(args, "q", "string")
  /\ OptionalOf(args, "sort", "string")
  /\ OptionalOf(args, "start", "number")

isValidPackageSearchArgs(args) ==
  /\ IsObject(args)
  /\ OptionalOf(args, "q", "string")
  /\ OptionalOf(args, "sort", "string")
  /\ OptionalOf(args, "rows", "number")
  /\ OptionalOf(args, "start", "number")

isValidPackageShowArgs(args) ==
  IsObject(args) /\ TypeOf(Get(args, T("id"))) = "string"

isValidGroupListArgs(args) ==
  /\ IsObject(args)
  /\ OptionalOf(args, "order_by", "string")
  /\ OptionalOf(args, "limit", "number")
  /\ OptionalOf(args, "offset", "number")
  /\ OptionalOf(args, "all_fields", "boolean")

isValidTagListArgs(args) ==
  /\ IsObject(args)
  /\ OptionalOf(args, "query", "string")
  /\ OptionalOf(args, "all_fields", "boolean")

----------------------------------------------------------------------------
(***************************************************************************)
(* Conversions to text.                                                    *)
(***************************************************************************)
DigitChars == <<"0", "1", "2", "3", "4", "5", "6", "7", "8", "9">>

RECURSIVE Digits(_)
Digits(n) ==
  IF n < 10 THEN <<DigitChars[n + 1]>>
  ELSE Digits(n \div 10) \o <<DigitChars[(n % 10) + 1]>>

\* Number::toString
NumToStr(v) ==
  CASE v.nk = "inf" -> <<"Infinity">>
    [] v.nk = "ninf" -> <<"-", "Infinity">>
    [] v.nk = "negz" -> <<"0">>
    [] v.n < 0 -> <<"-">> \o Digits(0 - v.n)
    [] OTHER -> Digits(v.n)

RECURSIVE Concat(_, _)
\* the texts of items, sep between them
Concat(items, sep) ==
  IF items = <<>> THEN <<>>
  ELSE IF Len(items) = 1 THEN items[1]
  ELSE items[1] \o sep \o Concat(Tail(items), sep)

\* v has its own property key
HasOwn(v, key) == v.t = "object" /\ \E i \in 1..Len(v.ok) : v.ok[i] = key

RECURSIVE Converts(_)
\* ToString(v) ends without a TypeError.  An object is converted by its
\* toString, else its valueOf: an own toString that is no function hides
\* Object.prototype.toString, and valueOf (the inherited one gives the object
\* back, an own one of a decoded body is no function) gives no primitive
\* either: TypeError, Cannot convert object to primitive value.  An array is
\* converted by joining the conversions of its elements.
Converts(v) ==
  CASE v.t = "object" -> ~HasOwn(v, T("toString"))
    [] v.t = "array" ->
         \A i \in 1..Len(v.a) :
           v.a[i].t \in {"undefined", "null"} \/ Converts(v.a[i])
    [] OTHER -> TRUE

RECURSIVE TemplateText(_)
\* ToString(v), as a template literal ${v} applies it, for v with Converts(v)
TemplateText(v) ==
  CASE v.t = "undefined" -> <<"undefined">>
    [] v.t = "null" -> <<"null">>
    [] v.t = "boolean" -> IF v.b THEN <<"true">> ELSE <<"false">>
    [] v.t = "number" -> NumToStr(v)
    [] v.t = "string" -> v.s
    [] v.t = "array" ->
         Concat([i \in 1..Len(v.a) |->
                   IF v.a[i].t \in {"undefined", "null"} THEN <<>>
                   ELSE TemplateText(v.a[i])], <<",">>)
    [] v.t = "function" -> <<"function sort() { [native code] }">>
    [] OTHER -> <<"[object Object]">>

Spaces(n) == [i \in 1..n |-> " "]

\* QuoteJSONString, for the units of the model
QuoteUnit(u) ==
  CASE u = "\"" -> <<"\\", "\"">>
    [] u = "\\" -> <<"\\", "\\">>
    [] u = "\n" -> <<"\\", "n">>
    [] u = "\t" -> <<"\\", "t">>
    [] u = "\r" -> <<"\\", "r">>
    [] OTHER -> <<u>>

Quote(s) ==
  <<"\"">> \o Concat([i \in 1..Len(s) |-> QuoteUnit(s[i])], <<>>) \o <<"\"">>

RECURSIVE Serialize(_, _, _)
\* SerializeJSONProperty: the text of v at indentation ind with gap Spaces(gap)
Serialize(v, ind, gap) ==
  CASE v.t = "null" -> <<"n", "u", "l", "l">>
    [] v.t = "boolean" ->
         IF v.b THEN <<"t", "r", "u", "e">> ELSE <<"f", "a", "l", "s", "e">>
    [] v.t = "number" ->
         IF v.nk \in {"inf", "ninf"} THEN <<"n", "u", "l", "l">> ELSE NumToStr(v)
    [] v.t = "string" -> Quote(v.s)
    [] v.t = "array" ->
         IF v.a = <<>> THEN <<"[", "]">>
         ELSE LET step == <<"\n">> \o Spaces(ind + gap)
                  item(i) == IF v.a[i].t \in {"undefined", "function"}
                             THEN <<"n", "u", "l", "l">>
                             ELSE Serialize(v.a[i], ind + gap, gap)
              IN  <<"[">> \o step
                  \o Concat([i \in 1..Len(v.a) |-> item(i)], <<",">> \o step)
                  \o <<"\n">> \o Spaces(ind) \o <<"]">>
    [] OTHER ->
         LET own == SelectSeq([i \in 1..Len(v.ok) |-> i],
                              LAMBDA i : v.ov[i].t \notin {"undefined", "function"})
             step == <<"\n">> \o Spaces(ind + gap)
             member(i) == Quote(v.ok[own[i]]) \o <<":", " ">>
                          \o Serialize(v.ov[own[i]], ind + gap, gap)
         IN  IF own = <<>> THEN <<"{", "}">>
             ELSE <<"{">> \o step
                  \o Concat([i \in 1..Len(own) |-> member(i)], <<",">> \o step)
                  \o <<"\n">> \o Spaces(ind) \o <<"}">>

\* JSON.stringify(v, null, gap), for v other than undefined
JSONstringify(v, gap) == Serialize(v, 0, gap)

----------------------------------------------------------------------------
(***************************************************************************)
(* JSON.parse, as the reader of a returned text applies it, for the texts *)
(* JSON.stringify writes: integers, strings, literals, arrays and objects, *)
(* with any white space between tokens.                                    *)
(***************************************************************************)
ParseFail == [ok |-> FALSE, v |-> Undef, pos |-> 0]
ParseOk(v, pos) == [ok |-> TRUE, v |-> v, pos |-> pos]

WhiteSpace == {" ", "\n", "\t", "\r"}

RECURSIVE SkipWs(_, _)
SkipWs(text, pos) ==
  IF pos <= Len(text) /\ text[pos] \in WhiteSpace THEN SkipWs(text, pos + 1)
  ELSE pos

DigitValue(c) == (CHOOSE i \in 1..10 : DigitChars[i] = c) - 1
IsDigit(c) == \E i \in 1..10 : DigitChars[i] = c

RECURSIVE ParseDigits(_, _, _)
\* the digits from pos on, after the value acc of those before
ParseDigits(text, pos, acc) ==
  IF pos <= Len(text) /\ IsDigit(text[pos])
  THEN ParseDigits(text, pos + 1, acc * 10 + DigitValue(text[pos]))
  ELSE [n |-> acc, pos |-> pos]

\* a JSON number at pos: -? (0 | [1-9][0-9]*)
ParseNumber(text, pos) ==
  LET neg == text[pos] = "-"
      p == IF neg THEN pos + 1 ELSE pos
  IN  IF p > Len(text) \/ ~IsDigit(text[p]) THEN ParseFail
      ELSE LET d == IF text[p] = "0" THEN [n |-> 0, pos |-> p + 1]
                    ELSE ParseDigits(text, p, 0)
           IN  ParseOk(IF neg /\ d.n = 0 THEN NumK("negz", 0)
                       ELSE IF neg THEN Num(0 - d.n) ELSE Num(d.n), d.pos)

Unescape(c) ==
  CASE c = "n" -> "\n"
    [] c = "t" -> "\t"
    [] c = "r" -> "\r"
    [] OTHER -> c

RECURSIVE ParseString(_, _, _)
\* the rest of a JSON string whose opening quote is before pos
ParseString(text, pos, acc) ==
  IF pos > Len(text) THEN ParseFail
  ELSE IF text[pos] = "\"" THEN ParseOk(Str(acc), pos + 1)
  ELSE IF text[pos] \in {"\n", "\t", "\r"} THEN ParseFail
  ELSE IF text[pos] = "\\"
  THEN IF pos + 1 <= Len(text) /\ text[pos + 1] \in {"\"", "\\", "/", "n", "t", "r"}
       THEN ParseString(text, pos + 2, Append(acc, Unescape(text[pos + 1])))
       ELSE ParseFail
  ELSE ParseString(text, pos + 1, Append(acc, text[pos]))

\* the literal lit at pos, read as v
ParseLiteral(text, pos, lit, v) ==
  IF pos + Len(lit) - 1 <= Len(text) /\ SubSeq(text, pos, pos + Len(lit) - 1) = lit
  THEN ParseOk(v, pos + Len(lit))
  ELSE ParseFail

\* the object keys/vals with key set to v: a repeated name keeps its place
PutMember(o, key, v) ==
  IF \E i \in 1..Len(o.ok) : o.ok[i] = key
  THEN Obj(o.ok, [i \in 1..Len(o.ok) |-> IF o.ok[i] = key THEN v ELSE o.ov[i]])
  ELSE Obj(Append(o.ok, key), Append(o.ov, v))

RECURSIVE ParseValue(_, _)
RECURSIVE ParseElements(_, _, _)
RECURSIVE ParseMembers(_, _, _)

ParseValue(text, pos) ==
  LET p == SkipWs(text, pos)
  IN  IF p > Len(text) THEN ParseFail
      ELSE CASE text[p] = "{" -> ParseMembers(text, p + 1, Obj(<<>>, <<>>))
             [] text[p] = "[" -> ParseElements(text, p + 1, <<>>)
             [] text[p] = "\"" -> ParseString(text, p + 1, <<>>)
             [] text[p] = "t" -> ParseLiteral(text, p, <<"t", "r", "u", "e">>, Bool(TRUE))
             [] text[p] = "f" ->
                  ParseLiteral(text, p, <<"f", "a", "l", "s", "e">>, Bool(FALSE))
             [] text[p] = "n" -> ParseLiteral(text, p, <<"n", "u", "l", "l">>, Null)
             [] text[p] = "-" \/ IsDigit(text[p]) -> ParseNumber(text, p)
             [] OTHER -> ParseFail

\* the elements of an array from pos on, after those of acc
ParseElements(text, pos, acc) ==
  LET p == SkipWs(text, pos)
  IN  IF p > Len(text) THEN ParseFail
      ELSE IF acc = <<>> /\ text[p] = "]" THEN ParseOk(Arr(<<>>), p + 1)
      ELSE LET r == ParseValue(text, p)
               q == SkipWs(text, r.pos)
           IN  IF ~r.ok \/ q > Len(text) THEN ParseFail
               ELSE IF text[q] = "," THEN ParseElements(text, q + 1, Append(acc, r.v))
               ELSE IF text[q] = "]" THEN ParseOk(Arr(Append(acc, r.v)), q + 1)
               ELSE ParseFail

\* the members of an object from pos on, after those of o
ParseMembers(text, pos, o) ==
  LET p == SkipWs(text, pos)
  IN  IF p > Len(text) THEN ParseFail
      ELSE IF o.ok = <<>> /\ text[p] = "}" THEN ParseOk(o, p + 1)
      ELSE IF text[p] # "\"" THEN ParseFail
      ELSE LET k == ParseString(text, p + 1, <<>>)
               c == SkipWs(text, k.pos)
           IN  IF ~k.ok \/ c > Len(text) THEN ParseFail
               ELSE IF text[c] # ":" THEN ParseFail
               ELSE LET r == ParseValue(text, c + 1)
                        q == SkipWs(text, r.pos)
                    IN  IF ~r.ok \/ q > Len(text) THEN ParseFail
                        ELSE IF text[q] = ","
                        THEN ParseMembers(text, q + 1, PutMember(o, k.v.s, r.v))
                        ELSE IF text[q] = "}"
                        THEN ParseOk(PutMember(o, k.v.s, r.v), q + 1)
                        ELSE ParseFail

\* JSON.parse(text): ok is FALSE where it throws SyntaxError
JSONparse(text) ==
  LET r == ParseValue(text, 1)
  IN  IF r.ok /\ SkipWs(text, r.pos) = Len(text) + 1 THEN r ELSE ParseFail

RECURSIVE JsonEq(_, _)
\* the same JSON value: the same kind and content, numbers by their numeric
\* value (0 and -0 are equal), objects by their members whatever the order
JsonEq(a, b) ==
  /\ a.t = b.t
  /\ CASE a.t = "boolean" -> a.b = b.b
       [] a.t = "number" ->
            LET kind(v) == IF v.nk = "negz" THEN "fin" ELSE v.nk
            IN  kind(a) = kind(b) /\ (kind(a) = "fin" => a.n = b.n)
       [] a.t = "string" -> a.s = b.s
       [] a.t = "array" ->
            Len(a.a) = Len(b.a) /\ \A i \in 1..Len(a.a) : JsonEq(a.a[i], b.a[i])
       [] a.t = "object" ->
            /\ Len(a.ok) = Len(b.ok)
            /\ \A i \in 1..Len(a.ok) :
                 /\ \E j \in 1..Len(b.ok) : b.ok[j] = a.ok[i]
                 /\ JsonEq(a.ov[i], Get(b, a.ok[i]))
       [] OTHER -> TRUE

----------------------------------------------------------------------------
(***************************************************************************)
(* Results of a handler: a value it returns or an error it throws.         *)
(***************************************************************************)
NoResult == [ch |-> "none"]
Return(value) == [ch |-> "return", value |-> value]
Throw(code, message) == [ch |-> "throw", code |-> code, message |-> message]

\* { content: [{ type: 'text', text }] }, with isError when flag is set
TextEnvelope(text, flag) ==
  [content |-> <<[type |-> "text", text |-> text]>>, isError |-> flag]

(***************************************************************************)
(* What an awaited GET may throw: an AxiosError (axios), with the response *)
(* it holds (response, status, data) or the request that got none          *)
(* (request), or any other exception with its name and message.            *)
(***************************************************************************)
AxiosError(message, response, status, data, request) ==
  [axios |-> TRUE, name |-> "AxiosError", message |-> message,
   response |-> response, status |-> status, data |-> data, request |-> request]
OtherError(name, message) ==
  [axios |-> FALSE, name |-> name, message |-> message,
   response |-> FALSE, status |-> 0, data |-> Undef, request |-> FALSE]

\* Error.prototype.toString: the name alone when the message is empty, the
\* message alone when the name is empty
ErrorText(error) ==
  IF error.name = "" THEN error.message
  ELSE IF error.message = <<>> THEN <<error.name>>
  ELSE <<error.name, ": ">> \o error.message

\* what building a text ended with: the text, or the TypeError of a
\* conversion
Built(text) == [ok |-> TRUE, text |-> text]
NotBuilt == [ok |-> FALSE, text |-> <<>>]

\* label followed by ${v}
Labelled(label, v) ==
  IF Converts(v) THEN Built(label \o TemplateText(v)) ELSE NotBuilt

\* what the CKAN error format adds to the message
ErrorDetail(data) ==
  IF Truthy(OptGet(OptGet(data, T("error")), T("message")))
  THEN Labelled(<<"\nMessage: ">>, Get(Get(data, T("error")), T("message")))
  ELSE IF Truthy(OptGet(data, T("error")))
  THEN Labelled(<<"\nMessage: ">>, Get(data, T("error")))
  ELSE IF TypeOf(data) = "string" THEN Built(<<"\nData: ">> \o data.s)
  ELSE Built(<<>>)

\* the summary numbered with a count of the GETs in flight, as a counter
\* kept in a field of the server and shared by the handlers would give
handleAxiosError_SharedCounter(error) ==
  Return(TextEnvelope(<<"Data.gov API error: ">> \o error.message \o <<" #">>
                      \o Digits(Cardinality({j \in 1..NSlots : slots[j].pc = "awaiting"})),
                      TRUE))

\* handleAxiosError: the envelope it returns, or the TypeError it throws when
\* the detail of the body cannot be converted to text
handleAxiosError(error) ==
  IF error.axios
  THEN LET errorMessage == <<"Data.gov API error: ">> \o error.message
           detail == IF error.response /\ Truthy(error.data)
                     THEN ErrorDetail(error.data)
                     ELSE Built(<<>>)
       IN  IF ~detail.ok
           THEN Throw("TypeError", <<"Cannot convert object to primitive value">>)
           ELSE Return(TextEnvelope(
                  IF error.response
                  THEN errorMessage \o <<"\nStatus: ">> \o Digits(error.status)
                       \o detail.text
                  ELSE IF error.request
                  THEN errorMessage \o <<"\nNo response received from the server.">>
                  ELSE errorMessage,
                  TRUE))
  ELSE Return(TextEnvelope(<<"An unexpected error occurred: ">> \o ErrorText(error),
                           TRUE))

(***************************************************************************)
(* The resource URI and its decoding.                                      *)
(***************************************************************************)
ResourcePrefix ==
  <<"d", "a", "t", "a", "g", "o", "v", ":", "/", "/",
    "r", "e", "s", "o", "u", "r", "c", "e", "/">>

\* the characters . does not match
LineTerminators == {"\n", "\r"}

\* the match with (.*) in place of (.+)
MatchResource_EmptyRest(uri) ==
  LET n == Len(ResourcePrefix)
  IN  IF /\ Len(uri) >= n
         /\ SubSeq(uri, 1, n) = ResourcePrefix
         /\ \A i \in (n + 1)..Len(uri) : uri[i] \notin LineTerminators
      THEN [ok |-> TRUE, rest |-> SubSeq(uri, n + 1, Len(uri))]
      ELSE [ok |-> FALSE, rest |-> <<>>]

\* uri.match(/^datagov:\/\/resource\/(.+)$/): whether it matches, and group 1
MatchResource(uri) ==
  LET n == Len(ResourcePrefix)
  IN  IF /\ Len(uri) > n
         /\ SubSeq(uri, 1, n) = ResourcePrefix
         /\ \A i \in (n + 1)..Len(uri) : uri[i] \notin LineTerminators
      THEN [ok |-> TRUE, rest |-> SubSeq(uri, n + 1, Len(uri))]
      ELSE [ok |-> FALSE, rest |-> <<>>]

\* the characters of code 32 to 95 and 97 to 126
Ascii ==
  <<" ", "!", "\"", "#", "$", "%", "&", "'", "(", ")", "*", "+", ",", "-", ".", "/",
    "0", "1", "2", "3", "4", "5", "6", "7", "8", "9", ":", ";", "<", "=", ">", "?",
    "@", "A", "B", "C", "D", "E", "F", "G", "H", "I", "J", "K", "L", "M", "N", "O",
    "P", "Q", "R", "S", "T", "U", "V", "W", "X", "Y", "Z", "[", "\\", "]", "^", "_",
    "a", "b", "c", "d", "e", "f", "g", "h", "i", "j", "k", "l", "m", "n", "o",
    "p", "q", "r", "s", "t", "u", "v", "w", "x", "y", "z", "{", "|", "}", "~">>

\* the code point of a character
CharCode(c) ==
  CASE c = "\n" -> 10
    [] c = "\r" -> 13
    [] c = "\t" -> 9
    [] OTHER -> LET i == CHOOSE j \in 1..Len(Ascii) : Ascii[j] = c
                IN  IF i > 64 THEN 32 + i ELSE 31 + i

Codes(text) == [i \in 1..Len(text) |-> CharCode(text[i])]

HexDigits == <<"0", "1", "2", "3", "4", "5", "6", "7", "8", "9",
               "A", "B", "C", "D", "E", "F", "a", "b", "c", "d", "e", "f">>
IsHex(c) == \E i \in 1..Len(HexDigits) : HexDigits[i] = c
HexValue(c) ==
  LET i == CHOOSE j \in 1..Len(HexDigits) : HexDigits[j] = c
  IN  IF i > 16 THEN i - 7 ELSE i - 1

\* whether %XX stands at k, and the byte it encodes
IsEscape(s, k) ==
  k + 2 <= Len(s) /\ s[k] = "%" /\ IsHex(s[k + 1]) /\ IsHex(s[k + 2])
EscapeByte(s, k) == HexValue(s[k + 1]) * 16 + HexValue(s[k + 2])

\* the number of octets of the UTF-8 sequence that byte b leads (0: none)
Utf8Length(b) ==
  CASE b < 128 -> 1
    [] b >= 192 /\ b < 224 -> 2
    [] b >= 224 /\ b < 240 -> 3
    [] b >= 240 /\ b < 248 -> 4
    [] OTHER -> 0

\* the code point of the n escapes at k, or -1 where they are no valid UTF-8
Utf8CodePoint(s, k, n) ==
  LET byte(j) == EscapeByte(s, k + 3 * j)
      cont(j) == byte(j) % 64
      wellFormed ==
        /\ k + 3 * n - 1 <= Len(s)
        /\ \A j \in 1..(n - 1) :
             IsEscape(s, k + 3 * j) /\ byte(j) >= 128 /\ byte(j) < 192
      cp == CASE n = 2 -> (byte(0) % 32) * 64 + cont(1)
              [] n = 3 -> (byte(0) % 16) * 4096 + cont(1) * 64 + cont(2)
              [] OTHER -> (byte(0) % 8) * 262144 + cont(1) * 4096
                          + cont(2) * 64 + cont(3)
      least == CASE n = 2 -> 128 [] n = 3 -> 2048 [] OTHER -> 65536
  IN  IF wellFormed /\ cp >= least /\ cp <= 1114111 /\ ~(cp >= 55296 /\ cp <= 57343)
      THEN cp ELSE -1

RECURSIVE Decode(_, _, _)
\* decodeURIComponent from k on, after the code points acc
Decode(s, k, acc) ==
  IF k > Len(s) THEN [ok |-> TRUE, url |-> acc]
  ELSE IF s[k] # "%" THEN Decode(s, k + 1, Append(acc, CharCode(s[k])))
  ELSE IF ~IsEscape(s, k) THEN [ok |-> FALSE, url |-> <<>>]
  ELSE LET b == EscapeByte(s, k)
           n == Utf8Length(b)
       IN  IF n = 1 THEN Decode(s, k + 3, Append(acc, b))
           ELSE IF n = 0 \/ Utf8CodePoint(s, k, n) < 0 THEN [ok |-> FALSE, url |-> <<>>]
           ELSE Decode(s, k + 3 * n, Append(acc, Utf8CodePoint(s, k, n)))

\* decodeURIComponent(s): ok is FALSE where it throws URIError; url is the
\* decoded text, as code points
decodeURIComponent(s) == Decode(s, 1, <<>>)

(***************************************************************************)
(* Buffer.toString('base64') and the data: URI.                            *)
(***************************************************************************)
Base64Chars ==
  <<"A", "B", "C", "D", "E", "F", "G", "H", "I", "J", "K", "L", "M", "N", "O", "P",
    "Q", "R", "S", "T", "U", "V", "W", "X", "Y", "Z", "a", "b", "c", "d", "e", "f",
    "g", "h", "i", "j", "k", "l", "m", "n", "o", "p", "q", "r", "s", "t", "u", "v",
    "w", "x", "y", "z", "0", "1", "2", "3", "4", "5", "6", "7", "8", "9", "+", "/">>

RECURSIVE Base64(_)
Base64(bytes) ==
  LET c(v) == Base64Chars[v + 1]
  IN  CASE Len(bytes) = 0 -> <<>>
        [] Len(bytes) = 1 ->
             <<c(bytes[1] \div 4), c((bytes[1] % 4) * 16), "=", "=">>
        [] Len(bytes) = 2 ->
             <<c(bytes[1] \div 4), c((bytes[1] % 4) * 16 + bytes[2] \div 16),
               c((bytes[2] % 16) * 4), "=">>
        [] OTHER ->
             <<c(bytes[1] \div 4), c((bytes[1] % 4) * 16 + bytes[2] \div 16),
               c((bytes[2] % 16) * 4 + bytes[3] \div 64), c(bytes[3] % 64)>>
             \o Base64(SubSeq(bytes, 4, Len(bytes)))

\* the template data:${response.headers['content-type']};base64,${base64}
DataUri(contentType, bytes) ==
  <<"data:">> \o TemplateText(contentType) \o <<";base64,">> \o Base64(bytes)

----------------------------------------------------------------------------
(***************************************************************************)
(* The server.  A slot holds one invocation from the request to the        *)
(* response: the request (kind, name, args, uri), where its handler stands *)
(* (pc), the validators it ran (ran), the GETs it issued (calls), what its *)
(* awaited GET ended with (outcome) and what the handler ended with        *)
(* (result).  others is not program state: it records how many other       *)
(* invocations were suspended at their GET when this one resumed.          *)
(***************************************************************************)
BASE_URL == <<"https://catalog.data.gov/api/3">>

NoOutcome == [ok |-> FALSE]
\* a GET that resolved: the decoded body of an API call (data), or the bytes
\* and the content-type header of a resource (bytes, ctype)
Resolved(data) == [ok |-> TRUE, data |-> data]
Fetched(bytes, ctype) == [ok |-> TRUE, bytes |-> bytes, ctype |-> ctype]
\* a GET that threw
Rejected(error) == [ok |-> FALSE, error |-> error]

IdleSlot ==
  [pc |-> "idle", kind |-> "none", name |-> "", args |-> Undef, uri |-> <<>>,
   ran |-> {}, calls |-> <<>>, outcome |-> NoOutcome, others |-> 0,
   result |-> NoResult]

\* this.axiosInstance.get(path, { params })
ApiGet(path, params) == [url |-> BASE_URL \o <<path>>, params |-> params]
\* axios.get(url, { responseType: 'arraybuffer' })
RawGet(url) == [url |-> url, responseType |-> "arraybuffer"]

\* the error given back as an envelope with the failure flag
Failed_AsEnvelope(s, code, message) ==
  [s EXCEPT !.pc = "done", !.result = Return(TextEnvelope(message, TRUE))]

\* a handler that threw before any await
Failed(s, code, message) ==
  [s EXCEPT !.pc = "done", !.result = Throw(code, message)]
\* a handler suspended at the GET it issued
Suspended(s, call) ==
  [s EXCEPT !.pc = "awaiting", !.calls = Append(@, call)]
\* a handler that ended with result after its GET ended with outcome
Settled(s, outcome, result) ==
  [s EXCEPT !.pc = "done", !.outcome = outcome, !.result = result]

\* packageSearch up to its await
packageSearchGet(s) == Suspended(s, ApiGet("/action/package_search", s.args))
\* packageSearch issuing its GET once more when it failed
packageSearch_Retries(s, outcome) ==
  IF outcome.ok
  THEN Settled(s, outcome, Return(TextEnvelope(JSONstringify(outcome.data, 2), FALSE)))
  ELSE IF Len(s.calls) < 2 THEN Suspended(s, s.calls[1])
  ELSE Settled(s, outcome, handleAxiosError(outcome.error))

\* packageSearch from its await on
packageSearch(s, outcome) ==
  IF outcome.ok
  THEN Settled(s, outcome, Return(TextEnvelope(JSONstringify(outcome.data, 2), FALSE)))
  ELSE Settled(s, outcome, handleAxiosError(outcome.error))

packageShowGet(s) ==
  Suspended(s, ApiGet("/action/package_show",
                      Obj(<<T("id")>>, <<Get(s.args, T("id"))>>)))
packageShow(s, outcome) ==
  IF outcome.ok
  THEN Settled(s, outcome, Return(TextEnvelope(JSONstringify(outcome.data, 2), FALSE)))
  ELSE Settled(s, outcome, handleAxiosError(outcome.error))

groupListGet(s) == Suspended(s, ApiGet("/action/group_list", s.args))
groupList(s, outcome) ==
  IF outcome.ok
  THEN Settled(s, outcome, Return(TextEnvelope(JSONstringify(outcome.data, 2), FALSE)))
  ELSE Settled(s, outcome, handleAxiosError(outcome.error))

tagListGet(s) == Suspended(s, ApiGet("/action/tag_list", s.args))
tagList(s, outcome) ==
  IF outcome.ok
  THEN Settled(s, outcome, Return(TextEnvelope(JSONstringify(outcome.data, 2), FALSE)))
  ELSE Settled(s, outcome, handleAxiosError(outcome.error))

\* the handler without its default case: an unknown name runs the last case
CallToolHandler_NoDefault(name, args) ==
  LET s == [IdleSlot EXCEPT !.kind = "tool", !.name = name, !.args = args]
      checked(v) == [s EXCEPT !.ran = {v}]
  IN  CASE name = "package_search" ->
             IF ~isValidPackageSearchArgs(args)
             THEN Failed(checked("isValidPackageSearchArgs"), "InvalidParams",
                         <<"Invalid package_search arguments">>)
             ELSE packageSearchGet(checked("isValidPackageSearchArgs"))
        [] name = "package_show" ->
             IF ~isValidPackageShowArgs(args)
             THEN Failed(checked("isValidPackageShowArgs"), "InvalidParams",
                         <<"Invalid package_show arguments">>)
             ELSE packageShowGet(checked("isValidPackageShowArgs"))
        [] name = "group_list" ->
             IF ~isValidGroupListArgs(args)
             THEN Failed(checked("isValidGroupListArgs"), "InvalidParams",
                         <<"Invalid group_list arguments">>)
             ELSE groupListGet(checked("isValidGroupListArgs"))
        [] OTHER ->
             IF ~isValidTagListArgs(args)
             THEN Failed(checked("isValidTagListArgs"), "InvalidParams",
                         <<"Invalid tag_list arguments">>)
             ELSE tagListGet(checked("isValidTagListArgs"))

\* the CallToolRequestSchema handler, up to the await of the tool it calls
CallToolHandler(name, args) ==
  LET s == [IdleSlot EXCEPT !.kind = "tool", !.name = name, !.args = args]
      checked(v) == [s EXCEPT !.ran = {v}]
  IN  CASE name = "package_search" ->
             IF ~isValidPackageSearchArgs(args)
             THEN Failed(checked("isValidPackageSearchArgs"), "InvalidParams",
                         <<"Invalid package_search arguments">>)
             ELSE packageSearchGet(checked("isValidPackageSearchArgs"))
        [] name = "package_show" ->
             IF ~isValidPackageShowArgs(args)
             THEN Failed(checked("isValidPackageShowArgs"), "InvalidParams",
                         <<"Invalid package_show arguments">>)
             ELSE packageShowGet(checked("isValidPackageShowArgs"))
        [] name = "group_list" ->
             IF ~isValidGroupListArgs(args)
             THEN Failed(checked("isValidGroupListArgs"), "InvalidParams",
                         <<"Invalid group_list arguments">>)
             ELSE groupListGet(checked("isValidGroupListArgs"))
        [] name = "tag_list" ->
             IF ~isValidTagListArgs(args)
             THEN Failed(checked("isValidTagListArgs"), "InvalidParams",
                         <<"Invalid tag_list arguments">>)
             ELSE tagListGet(checked("isValidTagListArgs"))
        [] OTHER -> Failed(s, "MethodNotFound", <<"Unknown tool: ", name>>)

\* the tool a suspended invocation is in, from its await on
ToolResumed(s, outcome) ==
  CASE s.name = "package_search" -> packageSearch(s, outcome)
    [] s.name = "package_show" -> packageShow(s, outcome)
    [] s.name = "group_list" -> groupList(s, outcome)
    [] OTHER -> tagList(s, outcome)

\* the ReadResourceRequestSchema handler, up to its await
ReadResourceHandler(uri) ==
  LET s == [IdleSlot EXCEPT !.kind = "resource", !.uri = uri]
      match == MatchResource(uri)
      url == decodeURIComponent(match.rest)
  IN  IF ~match.ok THEN Failed(s, "InvalidRequest", <<"Invalid URI format: ">> \o uri)
      ELSE IF ~url.ok THEN Failed(s, "URIError", <<"URI malformed">>)
      ELSE Suspended(s, RawGet(url.url))

\* the handler returning the summary of a failed GET, as the tools do
ReadResourceResumed_Swallows(s, outcome) ==
  IF outcome.ok
  THEN Settled(s, outcome,
               Return([contents |-> <<[uri |-> s.uri,
                                       text |-> DataUri(outcome.ctype, outcome.bytes)]>>]))
  ELSE Settled(s, outcome, handleAxiosError(outcome.error))

\* the ReadResourceRequestSchema handler, from its await on: the catch block
\* summarises the error, drops the summary and throws the error again; when
\* the summary throws, that is what the handler throws
ReadResourceResumed(s, outcome) ==
  IF outcome.ok
  THEN Settled(s, outcome,
               Return([contents |-> <<[uri |-> s.uri,
                                       text |-> DataUri(outcome.ctype, outcome.bytes)]>>]))
  ELSE LET summary == handleAxiosError(outcome.error)
       IN  IF summary.ch = "throw" THEN Settled(s, outcome, summary)
           ELSE Settled(s, outcome, Throw(outcome.error.name, outcome.error.message))

Awaiting(S) == {j \in S : slots[j].pc = "awaiting"}

(***************************************************************************)
(* The actions.  S is the set of slots; the other parameters are the       *)
(* requests and the outcomes of the GETs that the environment may choose.  *)
(***************************************************************************)
Init ==
  /\ slots = [i \in 1..NSlots |-> IdleSlot]
  /\ running = TRUE
  /\ closing = FALSE

\* a tools/call request arrives and its handler runs to its first await
CallTool(S, names, bags) ==
  \E i \in S :
    /\ running /\ slots[i].pc = "idle"
    /\ \E name \in names, args \in bags :
         slots' = [slots EXCEPT ![i] = CallToolHandler(name, args)]
    /\ UNCHANGED <<running, closing>>

\* the GET of a suspended tool ends and the tool runs to its end
ResumeTool(S, outcomes) ==
  \E i \in S :
    /\ running /\ slots[i].pc = "awaiting" /\ slots[i].kind = "tool"
    /\ \E outcome \in outcomes :
         slots' = [slots EXCEPT ![i] =
                     [ToolResumed(slots[i], outcome)
                        EXCEPT !.others = Cardinality(Awaiting(1..NSlots) \ {i})]]
    /\ UNCHANGED <<running, closing>>

\* a resources/read request arrives and its handler runs to its await
ReadResource(S, uris) ==
  \E i \in S :
    /\ running /\ slots[i].pc = "idle"
    /\ \E uri \in uris : slots' = [slots EXCEPT ![i] = ReadResourceHandler(uri)]
    /\ UNCHANGED <<running, closing>>

\* the GET of a suspended resource read ends and the handler runs to its end
ResumeRead(S, outcomes) ==
  \E i \in S :
    /\ running /\ slots[i].pc = "awaiting" /\ slots[i].kind = "resource"
    /\ \E outcome \in outcomes :
         slots' = [slots EXCEPT ![i] =
                     [ReadResourceResumed(slots[i], outcome)
                        EXCEPT !.others = Cardinality(Awaiting(1..NSlots) \ {i})]]
    /\ UNCHANGED <<running, closing>>

\* the protocol layer sends the response (the value returned, or the error
\* thrown as an error response) and the invocation is over
Respond(S) ==
  \E i \in S :
    /\ running /\ slots[i].pc = "done"
    /\ slots' = [slots EXCEPT ![i] = IdleSlot]
    /\ UNCHANGED <<running, closing>>

\* SIGINT: the listener calls server.close() and is suspended at its await.
\* The process lives on: suspended handlers may resume and requests may
\* still be handled until close() has ended.  (The listener of a further
\* SIGINT is suspended at the same await and changes nothing else.)
Sigint ==
  /\ running /\ ~closing
  /\ closing' = TRUE
  /\ UNCHANGED <<slots, running>>

\* server.close() has ended and the listener goes on: process.exit(0), with
\* which every invocation in progress is gone
Exit ==
  /\ running /\ closing
  /\ running' = FALSE
  /\ closing' = FALSE
  /\ slots' = [i \in 1..NSlots |-> IdleSlot]

----------------------------------------------------------------------------
(***************************************************************************)
(* The requests and outcomes the environment chooses from.                 *)
(***************************************************************************)
ToolNames ==
  {"package_search", "package_show", "group_list", "tag_list", "does_not_exist"}

RECURSIVE Ascending(_)
\* the numbers of S in ascending order
Ascending(S) ==
  IF S = {} THEN <<>>
  ELSE LET m == CHOOSE x \in S : \A y \in S : x <= y
       IN  <<m>> \o Ascending(S \ {m})

\* the field names of the four schemas, and one that is in none
FieldNames ==
  <<"q", "sort", "rows", "start", "id", "order_by", "limit", "offset",
    "all_fields", "query", "extra">>
ArgValues == {Str(T("x")), Num(10), Bool(TRUE), Null}

\* bags that are no plain object: null, a primitive, an array
OtherBags == {Null, Str(T("x")), Num(10), Arr(<<>>), Arr(<<Num(10)>>)}

\* request.params.arguments: absent, no plain object, or an object of at
\* most MaxFields fields
ArgumentBags ==
  {Undef} \cup OtherBags \cup
  { LET ks == Ascending(DOMAIN f)
    IN  Obj([i \in 1..Len(ks) |-> T(FieldNames[ks[i]])],
            [i \in 1..Len(ks) |-> f[ks[i]]]) :
      f \in UNION { [K -> ArgValues] :
                      K \in {K \in SUBSET (1..Len(FieldNames)) :
                               Cardinality(K) <= MaxFields} } }

SomeBags == {Undef, Obj(<<>>, <<>>), Obj(<<T("id")>>, <<Str(T("x"))>>)}

RECURSIVE SeqsUpTo(_, _)
\* the sequences of at most n elements of S
SeqsUpTo(S, n) ==
  IF n = 0 THEN {<<>>}
  ELSE LET shorter == SeqsUpTo(S, n - 1)
       IN  shorter \cup {Append(q, x) : q \in shorter, x \in S}

\* the resource URI of the specification's example, and its target
ExampleRest ==
  <<"h", "t", "t", "p", "s", "%", "3", "A", "%", "2", "F", "%", "2", "F",
    "e", "x", "a", "m", "p", "l", "e", ".", "c", "o", "m", "%", "2", "F",
    "f", "i", "l", "e", ".", "c", "s", "v">>
ExampleUrl ==
  Codes(<<"h", "t", "t", "p", "s", ":", "/", "/", "e", "x", "a", "m", "p", "l", "e",
          ".", "c", "o", "m", "/", "f", "i", "l", "e", ".", "c", "s", "v">>)

UriHeads ==
  {ResourcePrefix, <<>>, <<"x">> \o ResourcePrefix,
   SubSeq(ResourcePrefix, 1, Len(ResourcePrefix) - 1),
   <<"h", "t", "t", "p", ":", "/", "/", "r", "e", "s", "o", "u", "r", "c", "e", "/">>}
UriChars == {"x", "%", "2", "F", "\n"}
\* rests that need several escapes for one character, well formed or not
LongRests ==
  {ExampleRest,
   <<"%", "C", "3", "%", "A", "9">>, <<"%", "E", "2", "%", "8", "2", "%", "A", "C">>,
   <<"%", "F", "0", "%", "9", "F", "%", "9", "8", "%", "8", "0">>,
   <<"%", "C", "0", "%", "8", "0">>, <<"%", "E", "D", "%", "A", "0", "%", "8", "0">>,
   <<"%", "C", "3", "x", "A", "9", "1">>, <<"%", "C", "3", "%", "4", "1">>}
ResourceUris ==
  {h \o r : h \in UriHeads, r \in SeqsUpTo(UriChars, MaxRest) \cup LongRests}

SomeUris ==
  {ResourcePrefix \o ExampleRest, <<"d", "a", "t", "a", "g", "o", "v", ":", "x">>,
   ResourcePrefix \o <<"%">>}

\* values JSON.parse gives: a number beyond the doubles is read as an
\* infinity, -0 as -0
JsonScalars ==
  {Null, Bool(TRUE), Bool(FALSE), Num(0), Num(-12), Num(105),
   NumK("negz", 0), NumK("inf", 0), NumK("ninf", 0),
   Str(<<>>), Str(<<"a", "\"">>), Str(<<"\\", "\n">>)}
JsonArrays == {Arr(a) : a \in SeqsUpTo(JsonScalars, MaxItems)}
JsonFlat == JsonScalars \cup JsonArrays
JsonBodies ==
  JsonFlat
  \cup {Obj(<<>>, <<>>)}
  \cup {Obj(<<T("result")>>, <<v>>) : v \in JsonFlat}
  \cup {Obj(<<T("success"), T("result")>>, <<Bool(TRUE), v>>) : v \in JsonFlat}
  \cup {Obj(<<T("help"), <<"k", "\"">>>>, <<Str(T("x")), Arr(<<Obj(<<T("id")>>, <<v>>)>>)>>) :
          v \in JsonScalars}

SomeBody == Obj(<<T("success"), T("result")>>, <<Bool(TRUE), Arr(<<Str(T("x"))>>)>>)
NotFoundBody ==
  Obj(<<T("success"), T("error")>>,
      <<Bool(FALSE), Obj(<<T("message")>>, <<Str(T("Not found"))>>)>>)

\* bodies of a response with an error status
ErrorScalars ==
  {Null, Bool(FALSE), Bool(TRUE), Num(0), Num(7), Str(<<>>), Str(T("Bad Gateway"))}
\* objects of a decoded body with a member named toString or valueOf
OwnToString == Obj(<<T("toString")>>, <<Num(1)>>)
OwnValueOf == Obj(<<T("valueOf")>>, <<Num(1)>>)
ErrorFields ==
  ErrorScalars
  \cup {Obj(<<T("message")>>, <<m>>) :
          m \in ErrorScalars \cup {Obj(<<>>, <<>>), OwnToString, OwnValueOf,
                                   Arr(<<OwnToString>>)}}
  \cup {Obj(<<T("__type")>>, <<Str(T("Validation Error"))>>),
        Arr(<<Str(T("a")), Str(T("b"))>>),
        OwnToString, OwnValueOf, Arr(<<Null, OwnToString>>)}
ErrorBodies ==
  ErrorScalars
  \cup {Undef, NotFoundBody, Obj(<<>>, <<>>), Arr(<<>>), OwnToString}
  \cup {Obj(<<T("error")>>, <<e>>) : e \in ErrorFields}

ErrorMessages == {T("Request failed with status code 404"), T("Network Error")}
ErrorStatuses == {404, 500}
Errors ==
  {AxiosError(m, TRUE, st, d, rq) :
     m \in ErrorMessages, st \in ErrorStatuses, d \in ErrorBodies, rq \in BOOLEAN}
  \cup {AxiosError(m, FALSE, 0, Undef, rq) : m \in ErrorMessages, rq \in BOOLEAN}
  \cup {OtherError(n, m) : n \in {"TypeError", "Error", ""}, m \in {T("boom"), <<>>}}

NotFound ==
  AxiosError(T("Request failed with status code 404"), TRUE, 404, NotFoundBody, TRUE)
NoResponse == AxiosError(T("Network Error"), FALSE, 0, Undef, TRUE)

SomeOutcomes == {Resolved(SomeBody), Rejected(NotFound), Rejected(NoResponse)}
SomeFetches ==
  {Fetched(<<72, 105>>, Str(T("text/csv"))), Fetched(<<>>, Undef), Rejected(NotFound)}

(***************************************************************************)
(* The specifications.  Spec: overlapping invocations.  The others: one    *)
(* invocation at a time, over all the argument bags (SpecArgs), resource   *)
(* URIs (SpecUri), decoded bodies (SpecJson) or errors (SpecErr).          *)
(***************************************************************************)
Sequential == {1}

Next ==
  \/ CallTool(1..NSlots, ToolNames, SomeBags)
  \/ ResumeTool(1..NSlots, SomeOutcomes)
  \/ ReadResource(1..NSlots, SomeUris)
  \/ ResumeRead(1..NSlots, SomeFetches)
  \/ Respond(1..NSlots)
  \/ Sigint
  \/ Exit

Spec == Init /\ [][Next]_vars

NextArgs ==
  \/ CallTool(Sequential, ToolNames, ArgumentBags)
  \/ ResumeTool(Sequential, SomeOutcomes)
  \/ ReadResource(Sequential, SomeUris)
  \/ ResumeRead(Sequential, SomeFetches)
  \/ Respond(Sequential)
  \/ Sigint
  \/ Exit

SpecArgs == Init /\ [][NextArgs]_vars

NextUri ==
  \/ CallTool(Sequential, ToolNames, SomeBags)
  \/ ResumeTool(Sequential, SomeOutcomes)
  \/ ReadResource(Sequential, ResourceUris)
  \/ ResumeRead(Sequential, SomeFetches)
  \/ Respond(Sequential)
  \/ Sigint
  \/ Exit

SpecUri == Init /\ [][NextUri]_vars

NextJson ==
  \/ CallTool(Sequential, ToolNames, SomeBags)
  \/ ResumeTool(Sequential, {Resolved(d) : d \in JsonBodies} \cup {Rejected(NotFound)})
  \/ ReadResource(Sequential, SomeUris)
  \/ ResumeRead(Sequential, SomeFetches)
  \/ Respond(Sequential)
  \/ Sigint
  \/ Exit

SpecJson == Init /\ [][NextJson]_vars

NextErr ==
  \/ CallTool(Sequential, ToolNames, SomeBags)
  \/ ResumeTool(Sequential, {Resolved(SomeBody)} \cup {Rejected(e) : e \in Errors})
  \/ ReadResource(Sequential, SomeUris)
  \/ ResumeRead(Sequential,
                {Fetched(<<72, 105>>, Str(T("text/csv")))} \cup {Rejected(e) : e \in Errors})
  \/ Respond(Sequential)
  \/ Sigint
  \/ Exit

SpecErr == Init /\ [][NextErr]_vars

----------------------------------------------------------------------------
(***************************************************************************)
(* The schemas the server advertises for its tools (tools/list).           *)
(***************************************************************************)
inputSchema(name) ==
  CASE name = "package_search" ->
         [properties |-> [q |-> "string", sort |-> "string",
                          rows |-> "number", start |-> "number"],
          required |-> {}]
    [] name = "package_show" ->
         [properties |-> [id |-> "string"], required |-> {"id"}]
    [] name = "group_list" ->
         [properties |-> [order_by |-> "string", limit |-> "number",
                          offset |-> "number", all_fields |-> "boolean"],
          required |-> {}]
    [] name = "tag_list" ->
         [properties |-> [query |-> "string", all_fields |-> "boolean"],
          required |-> {}]

KnownTools == {"package_search", "package_show", "group_list", "tag_list"}

----------------------------------------------------------------------------
(***************************************************************************)
(* The claims.                                                             *)
(***************************************************************************)
AllSlots == 1..NSlots

\* the invocations of the known tools, of unknown tools, and the reads
ToolCalls == {i \in AllSlots : slots[i].kind = "tool" /\ slots[i].name \in KnownTools}
UnknownCalls ==
  {i \in AllSlots : slots[i].kind = "tool" /\ slots[i].name \notin KnownTools}
Reads == {i \in AllSlots : slots[i].kind = "resource"}

\* the invocation ended with a protocol-level error of this code
ThrewCode(s, code) == s.pc = "done" /\ s.result.ch = "throw" /\ s.result.code = code
\* the invocation's GET ended in a failure and the handler has ended
FailedGet(s) == s.pc = "done" /\ s.calls # <<>> /\ ~s.outcome.ok
\* the invocation's GET succeeded and the handler has ended
SucceededGet(s) == s.pc = "done" /\ s.calls # <<>> /\ s.outcome.ok

Contains(text, part) ==
  \E k \in 0..(Len(text) - Len(part)) : SubSeq(text, k + 1, k + Len(part)) = part

SchemaFields(name) == DOMAIN inputSchema(name).properties

\* the bag has a field that the schema of the tool does not name
HasUnknownField(name, args) ==
  /\ args.t = "object"
  /\ \E k \in 1..Len(args.ok) : \A f \in SchemaFields(name) : args.ok[k] # T(f)

\* the bag has a field of the schema whose value is not of the schema's type
HasMistypedField(name, args) ==
  /\ args.t = "object"
  /\ \E k \in 1..Len(args.ok) : \E f \in SchemaFields(name) :
       args.ok[k] = T(f) /\ TypeOf(args.ov[k]) # inputSchema(name).properties[f]

\* the bag lacks a field the schema requires
LacksRequiredField(name, args) ==
  /\ args.t = "object"
  /\ \E f \in inputSchema(name).required : \A k \in 1..Len(args.ok) : args.ok[k] # T(f)

\* C1, as stated: a tool invocation whose bag has a field outside the schema,
\* or a schema field of the wrong type, is rejected without any GET.
C1_UnknownOrMistypedRejected ==
  \A i \in ToolCalls :
    (HasUnknownField(slots[i].name, slots[i].args)
       \/ HasMistypedField(slots[i].name, slots[i].args))
    => slots[i].pc = "done" /\ slots[i].result.ch = "throw" /\ slots[i].calls = <<>>

\* C1, amended: a bag with a schema field of the wrong type is rejected with
\* InvalidParams and without any GET; a bag that is an object, has every
\* schema field it carries of the schema's type and has the required fields
\* is accepted and its GET is issued, whatever other fields it carries.
C1_MistypedRejected ==
  \A i \in ToolCalls :
    LET name == slots[i].name
        args == slots[i].args
    IN  /\ HasMistypedField(name, args)
           => ThrewCode(slots[i], "InvalidParams") /\ slots[i].calls = <<>>
        /\ (args.t = "object" /\ ~HasMistypedField(name, args)
              /\ ~LacksRequiredField(name, args))
           => Len(slots[i].calls) = 1 /\ slots[i].result.ch # "throw"

\* C1 witness: a bag with a mistyped schema field and a field outside the
\* schema was rejected with InvalidParams.
C1_Witness ==
  \E i \in ToolCalls :
    /\ HasMistypedField(slots[i].name, slots[i].args)
    /\ HasUnknownField(slots[i].name, slots[i].args)
    /\ ThrewCode(slots[i], "InvalidParams") /\ slots[i].calls = <<>>

\* the validator of the tool accepts the bag
IsValidFor(name, args) ==
  CASE name = "package_search" -> isValidPackageSearchArgs(args)
    [] name = "package_show" -> isValidPackageShowArgs(args)
    [] name = "group_list" -> isValidGroupListArgs(args)
    [] name = "tag_list" -> isValidTagListArgs(args)

\* C2: an invocation whose validator rejects the bag ends with the
\* protocol-level error InvalidParams, returns no envelope and has issued
\* no GET; every GET was issued after the validator ran and accepted.
C2_ValidationBeforeCall ==
  \A i \in ToolCalls :
    /\ ~IsValidFor(slots[i].name, slots[i].args)
       => ThrewCode(slots[i], "InvalidParams") /\ slots[i].calls = <<>>
    /\ slots[i].calls # <<>>
       => slots[i].ran # {} /\ IsValidFor(slots[i].name, slots[i].args)

\* C2 witness: package_show with the bag {} was rejected with InvalidParams.
C2_Witness ==
  \E i \in ToolCalls :
    /\ slots[i].name = "package_show" /\ slots[i].args = Obj(<<>>, <<>>)
    /\ ThrewCode(slots[i], "InvalidParams") /\ slots[i].calls = <<>>

\* C3: an invocation of an unknown tool ends with the protocol-level error
\* MethodNotFound, whatever its bag, with no validator run and no GET.
C3_UnknownToolNotFound ==
  \A i \in UnknownCalls :
    /\ ThrewCode(slots[i], "MethodNotFound")
    /\ slots[i].ran = {}
    /\ slots[i].calls = <<>>

\* C3 witness: does_not_exist was called with a bag every validator accepts.
C3_Witness ==
  \E i \in UnknownCalls :
    /\ slots[i].name = "does_not_exist"
    /\ \A n \in KnownTools : IsValidFor(n, slots[i].args)
    /\ ThrewCode(slots[i], "MethodNotFound")

\* C4: a query tool whose GET failed, in any way, returns an envelope of
\* exactly one text block with the failure flag set; it throws nothing.
C4_FailureIsEnvelope ==
  \A i \in ToolCalls :
    FailedGet(slots[i])
    => /\ slots[i].result.ch = "return"
       /\ Len(slots[i].result.value.content) = 1
       /\ slots[i].result.value.content[1].type = "text"
       /\ slots[i].result.value.isError = TRUE

\* C5: a resource read whose GET failed ends with a thrown error and returns
\* neither contents nor an envelope; what it throws is the error of the GET
\* whenever the summary of that error was built.
C5_ReadFailureRethrown ==
  \A i \in Reads :
    FailedGet(slots[i])
    => /\ slots[i].result.ch = "throw"
       /\ handleAxiosError(slots[i].outcome.error).ch = "return"
          => slots[i].result = Throw(slots[i].outcome.error.name,
                                     slots[i].outcome.error.message)

\* C5 witness: the GET of a resource read failed with HTTP 404.
C5_Witness ==
  \E i \in Reads :
    /\ FailedGet(slots[i]) /\ slots[i].outcome.error = NotFound
    /\ slots[i].result.ch = "throw"

\* the URI is datagov://resource/ followed by at least one character
IsResourceUri(uri) ==
  /\ Len(uri) > Len(ResourcePrefix)
  /\ SubSeq(uri, 1, Len(ResourcePrefix)) = ResourcePrefix

\* C6: a read of a URI that is not datagov://resource/<non-empty rest> ends
\* with InvalidRequest and no GET; a GET is issued only for a URI of that
\* form whose rest decodes, and to the decoded rest.
C6_UriCheckedBeforeGet ==
  \A i \in Reads :
    LET rest == SubSeq(slots[i].uri, Len(ResourcePrefix) + 1, Len(slots[i].uri))
    IN  /\ ~IsResourceUri(slots[i].uri)
           => ThrewCode(slots[i], "InvalidRequest") /\ slots[i].calls = <<>>
        /\ slots[i].calls # <<>>
           => /\ IsResourceUri(slots[i].uri)
              /\ decodeURIComponent(rest).ok
              /\ slots[i].calls = <<RawGet(decodeURIComponent(rest).url)>>

\* C6 witness: the read of the example URI is suspended at its GET to
\* https://example.com/file.csv.
C6_Witness ==
  \E i \in Reads :
    /\ slots[i].uri = ResourcePrefix \o ExampleRest
    /\ slots[i].pc = "awaiting"
    /\ slots[i].calls = <<RawGet(ExampleUrl)>>

\* C7: a query tool whose GET succeeded returns an envelope of exactly one
\* text block, without the failure flag, whose text parses to the JSON value
\* of the response.
C7_TextRoundTrips ==
  \A i \in ToolCalls :
    SucceededGet(slots[i])
    => /\ slots[i].result.ch = "return"
       /\ Len(slots[i].result.value.content) = 1
       /\ slots[i].result.value.isError = FALSE
       /\ LET parsed == JSONparse(slots[i].result.value.content[1].text)
          IN  parsed.ok /\ JsonEq(parsed.v, slots[i].outcome.data)

\* the detail of an error body that is text, a number or a boolean: the
\* first that is truthy of error.message and error, else the body if a string
ScalarDetails(data) ==
  LET err == OptGet(data, T("error"))
      msg == OptGet(err, T("message"))
      scalar(v) == v.t \in {"string", "number", "boolean"}
  IN  IF Truthy(msg) THEN (IF scalar(msg) THEN {msg} ELSE {})
      ELSE IF Truthy(err) THEN (IF scalar(err) THEN {err} ELSE {})
      ELSE IF data.t = "string" THEN {data}
      ELSE {}

\* C8: a query tool whose GET failed with an AxiosError returns a failure
\* text that holds the status code of the response received and the detail
\* of its body; with no response received it holds the no-response note and
\* no status line.
C8_FailureTextReflectsResponse ==
  \A i \in ToolCalls :
    (FailedGet(slots[i]) /\ slots[i].outcome.error.axios)
    => /\ slots[i].result.ch = "return"
       /\ LET error == slots[i].outcome.error
              text == slots[i].result.value.content[1].text
          IN  /\ slots[i].result.value.isError = TRUE
              /\ error.response
                 => /\ Contains(text, <<"\nStatus: ">> \o Digits(error.status))
                    /\ \A d \in ScalarDetails(error.data) :
                         Contains(text, TemplateText(d))
              /\ (~error.response /\ error.request)
                 => /\ Contains(text, <<"\nNo response received from the server.">>)
                    /\ ~Contains(text, <<"\nStatus: ">>)

\* C9: no step of a handler stops the server or begins its shutdown (only
\* the SIGINT listener does: it begins the shutdown, and the process exits
\* when server.close() has ended), and no invocation ever has more than one
\* GET: a failed GET is not issued again.
C9_StaysUpAndNeverRetries ==
  [][/\ (running /\ ~Exit) => running'
     /\ (~closing /\ ~Sigint) => ~closing'
     /\ \A i \in AllSlots : Len(slots'[i].calls) <= 1]_vars

\* C9 witness: with the server running and no SIGINT received, one
\* invocation has ended after its only GET failed and another has ended
\* with a protocol-level error.
C9_Witness ==
  /\ running /\ ~closing
  /\ \E i, j \in AllSlots :
       /\ FailedGet(slots[i]) /\ Len(slots[i].calls) = 1
       /\ slots[j].pc = "done" /\ slots[j].result.ch = "throw"

\* C10: two invocations with the same request whose GETs ended the same way
\* end with the same result, however the other invocations were interleaved.
C10_ResultIsOwn ==
  \A i, j \in AllSlots :
    (/\ slots[i].pc = "done" /\ slots[j].pc = "done"
     /\ slots[i].kind = slots[j].kind /\ slots[i].name = slots[j].name
     /\ slots[i].args = slots[j].args /\ slots[i].uri = slots[j].uri
     /\ slots[i].outcome = slots[j].outcome)
    => slots[i].result = slots[j].result /\ slots[i].calls = slots[j].calls

\* C10 witness: two invocations with the same request were suspended
\* together, their GETs failed the same way, and they ended the same: one
\* resumed while the other was suspended, the other after it.
C10_Witness ==
  \E i, j \in AllSlots :
    /\ FailedGet(slots[i]) /\ FailedGet(slots[j])
    /\ slots[i].kind = "tool" /\ slots[j].kind = "tool"
    /\ slots[i].name = slots[j].name /\ slots[i].args = slots[j].args
    /\ slots[i].outcome = slots[j].outcome
    /\ slots[i].others = 1 /\ slots[j].others = 0
    /\ slots[i].result = slots[j].result

====
